---- MODULE Spec2Model ----
(***************************************************************************)
(* A model of posttroll's ZMQ backend: the process-keyed registry of       *)
(* transport contexts and the keepalive options                            *)
(* (posttroll/backends/zmq/__init__.py), the publishers                    *)
(* (posttroll/backends/zmq/publisher.py) and the address receiver          *)
(* (posttroll/backends/zmq/address_receiver.py).                           *)
(*                                                                         *)
(* A process is named by its pid (os.getpid()); pids of the processes of   *)
(* one run are distinct.  Every process has its own copy of the module     *)
(* global `context` (a dict pid -> zmq.Context); fork() copies the         *)
(* parent's dict into the child.  A context object is named by the number  *)
(* it got when zmq.Context() built it, so that two registry entries hold   *)
(* the same object exactly when they hold the same number.                 *)
(***************************************************************************)
EXTENDS Integers, Sequences, FiniteSets, TLC

\* ------------------------------------------------------------------ bounds
MaxProcs == 2
MaxThreads == 2
MaxCtx == 3
MaxPort == 2
MaxSockets == 2
MaxFrames == 2
MaxValue == 1

Procs == 1..MaxProcs
Threads == 1..MaxThreads
Ctxs == 1..MaxCtx

Ports == 1..MaxPort

\* Python's None where a context is expected.
NoCtx == 0

\* Python's None where a port number or a socket option is expected.
None == -1

\* Python's None where a socket is expected; a socket is named by its place in
\* `sockets`, the sockets built so far.
NoSocket == 0

VARIABLES
    alive,      \* the processes that exist
    context,    \* context[p]: process p's copy of the module-level dict `context`
    nextCtx,    \* how many zmq.Context objects were built so far
    pc,         \* pc[p][t]: where thread t of process p is inside get_context
    got,        \* got[p][t]: what t's last get_context returned since p's last destroy_context
    made,       \* made[p]: contexts p built since its last successful destroy_context
    out,        \* out[p][t]: how t's last registry call ended
    gone,       \* gone[p]: the contexts p's destroy_context destroyed
    destination,    \* Publisher.destination
    min_port,       \* Publisher.min_port
    max_port,       \* Publisher.max_port
    port_number,    \* Publisher.port_number
    publish_socket, \* Publisher.publish_socket
    pub_lock,       \* Publisher._pub_lock: the thread holding it, 0 when free
    sockets,        \* the zmq sockets built so far, with what was put on each
    taken,          \* the ports other programs of the host hold
    spc,            \* spc[t]: where thread t is inside Publisher.send
    ssock,          \* ssock[t]: the socket t's running send_string works on
    pout,           \* how the last Publisher call that returned or raised ended
    lastStart,      \* what the last Publisher.start was given and did
    config,         \* posttroll.config: what it holds for every keepalive option
    sockopts,       \* the keepalive options set on the socket given to _set_tcp_keepalive
    kout,           \* how the last _set_tcp_keepalive ended
    rarg,           \* the `port` argument given to SimpleReceiver
    configured,     \* what get_configured_address_port() returns
    receiver,       \* the SimpleReceiver: its _port, what its socket is bound to
    inbox,          \* the request waiting on the receiver's socket
    rlog,           \* what the calls of the receiver returned and replied
    secure,         \* the Publisher is a SecureZMQPublisher
    creds,          \* server_secret_key and public_keys_directory given to the constructor
    built,          \* how the constructor of the Publisher ended
    auths,          \* the ThreadAuthenticators built so far
    authenticator,  \* SecureZMQPublisher._authenticator, 0 for None
    call            \* the start or stop in progress and the statement it is at

rvars == <<alive, context, nextCtx, pc, got, made, out, gone>>
pvars == <<destination, min_port, max_port, port_number, publish_socket, pub_lock,
           sockets, taken, spc, ssock, pout, lastStart>>
kvars == <<config, sockopts, kout>>
avars == <<rarg, configured, receiver, inbox, rlog>>
svars == <<secure, creds, built, auths, authenticator, call>>
xvars == <<kvars, avars, svars>>
vars == <<rvars, pvars, xvars>>

\* the option names get_tcp_keepalive_options loops over, in its order
KeepaliveOpts == <<"tcp_keepalive", "tcp_keepalive_cnt", "tcp_keepalive_idle",
                   "tcp_keepalive_intvl">>

OptNames == {KeepaliveOpts[i] : i \in DOMAIN KeepaliveOpts}

\* What the configuration can hold for an option: nothing, None, an int, a
\* string of the decimal digits of an int, a string that is no number.
Absent == [kind |-> "absent", v |-> 0]

ConfigValues ==
    {Absent, [kind |-> "None", v |-> 0], [kind |-> "text", v |-> 0]}
        \cup {[kind |-> k, v |-> n] : k \in {"int", "digits"}, n \in 0..MaxValue}

NoKeepaliveCall == [called |-> FALSE, raised |-> "none"]

\* a socket with no keepalive option set, under a configuration with none
KeepaliveIdle ==
    /\ config = [o \in OptNames |-> Absent]
    /\ sockopts = [o \in OptNames |-> None]
    /\ kout = NoKeepaliveCall

\* no SimpleReceiver was constructed
NoReceiver == [made |-> "no", port |-> None, bound |-> None, closed |-> FALSE, linger |-> None]

ReceiverIdle ==
    /\ rarg = None
    /\ configured = 1
    /\ receiver = NoReceiver
    /\ inbox = <<>>
    /\ rlog = <<>>

\* no start or stop in progress; `auth` is the local variable of start
NoStep == [op |-> "none", i |-> 0, auth |-> 0]

\* an UnsecureZMQPublisher, constructed
SecureIdle ==
    /\ secure = FALSE
    /\ creds = [secret |-> None, dir |-> None, certOk |-> FALSE]
    /\ built = "ok"
    /\ auths = <<>>
    /\ authenticator = 0
    /\ call = NoStep

\* the parts of the system a specification leaves alone
ExtraIdle == KeepaliveIdle /\ ReceiverIdle /\ SecureIdle

NoCall == [op |-> "none", ctx |-> NoCtx, raised |-> FALSE, created |-> FALSE]

\* ---------------------------------------------------------------- registry

\* a registry keyed by one key for every process
MutSharedKey(p) == 1

\* os.getpid()
getpid(p) == p

\* a get_context that builds a context on every call
MutAlwaysCreate(reg, pid) == TRUE

\* `if pid not in context:`
ContextMissing(reg, pid) == pid \notin DOMAIN reg

\* `context[pid] = zmq.Context()`
StoreContext(reg, pid, c) == (pid :> c) @@ reg

\* `context.pop(pid, None)`: nothing raised for a missing key
MutPopDefault(reg, pid) == FALSE

\* `context.pop(pid)` raises KeyError when pid is no key
PopRaises(reg, pid) == pid \notin DOMAIN reg

\* a destroy_context that destroys the context and leaves its entry in the dict
MutPopKeeps(reg, pid) == reg

\* the dict after `context.pop(pid)`
PopContext(reg, pid) == [k \in DOMAIN reg \ {pid} |-> reg[k]]

\* get_context(), called by thread t of process p and run to its end with no
\* other thread of p in between.
GetContext(p, t) ==
    LET pid == getpid(p)
        create == ContextMissing(context[p], pid)
        reg == IF create THEN StoreContext(context[p], pid, nextCtx + 1) ELSE context[p]
    IN  /\ p \in alive
        /\ pc[p][t] = "idle"
        /\ create => nextCtx < MaxCtx
        /\ nextCtx' = IF create THEN nextCtx + 1 ELSE nextCtx
        /\ made' = IF create THEN [made EXCEPT ![p] = @ + 1] ELSE made
        /\ context' = [context EXCEPT ![p] = reg]
        /\ got' = [got EXCEPT ![p][t] = reg[pid]]
        /\ out' = [out EXCEPT ![p][t] = [op |-> "get_context", ctx |-> reg[pid], raised |-> FALSE,
                                           created |-> create]]
        /\ UNCHANGED <<alive, pc, gone>>

\* destroy_context(linger): context.pop(pid).destroy(linger)
DestroyContext(p, t) ==
    LET pid == getpid(p)
    IN  /\ p \in alive
        /\ pc[p][t] = "idle"
        /\ IF PopRaises(context[p], pid)
           THEN /\ out' = [out EXCEPT ![p][t] = [op |-> "destroy_context", ctx |-> NoCtx, raised |-> TRUE,
                                                created |-> FALSE]]
                /\ UNCHANGED <<context, got, made, gone>>
           ELSE /\ out' = [out EXCEPT ![p][t] =
                              [op |-> "destroy_context",
                               ctx |-> IF pid \in DOMAIN context[p] THEN context[p][pid] ELSE NoCtx,
                               raised |-> FALSE, created |-> FALSE]]
                /\ context' = [context EXCEPT ![p] = PopContext(context[p], pid)]
                /\ got' = [got EXCEPT ![p] = [u \in Threads |-> NoCtx]]
                /\ made' = [made EXCEPT ![p] = 0]
                /\ gone' = [gone EXCEPT ![p] =
                              @ \cup (IF pid \in DOMAIN context[p] THEN {context[p][pid]} ELSE {})]
        /\ UNCHANGED <<alive, nextCtx, pc>>

\* os.fork() in process p: the child c starts with a copy of p's memory, the
\* module-level dict included, and has made no call of its own yet.
Fork(p, c) ==
    /\ p \in alive
    /\ c \in Procs \ alive
    /\ \A t \in Threads : pc[p][t] = "idle"
    /\ alive' = alive \cup {c}
    /\ context' = [context EXCEPT ![c] = context[p]]
    /\ UNCHANGED <<nextCtx, pc, got, made, out, gone>>

RegistryInit ==
    /\ alive = {1}
    /\ context = [p \in Procs |-> <<>>]
    /\ nextCtx = 0
    /\ pc = [p \in Procs |-> [t \in Threads |-> "idle"]]
    /\ got = [p \in Procs |-> [t \in Threads |-> NoCtx]]
    /\ made = [p \in Procs |-> 0]
    /\ out = [p \in Procs |-> [t \in Threads |-> NoCall]]
    /\ gone = [p \in Procs |-> {}]

\* --------------------------------------------------------------- publisher
\* A destination is a string scheme://host:port/path?query#fragment, kept as
\* the parts it is written with; host is written in any case.
Hosts == {"*", "LocalHost"}

Url(scheme, host, port) ==
    [scheme |-> scheme, host |-> host, port |-> port, path |-> "", query |-> "", fragment |-> ""]

\* str.lower() on the texts a destination is written with
Lower(s) == CASE s = "LocalHost" -> "localhost" [] s = "TCP" -> "tcp" [] OTHER -> s

\* urllib.parse.urlsplit: the scheme and the hostname come back lower-cased
urlsplit(d) ==
    [scheme |-> Lower(d.scheme), hostname |-> Lower(d.host), port |-> d.port,
     path |-> d.path, query |-> d.query, fragment |-> d.fragment]

\* urllib.parse.urlunsplit((scheme, netloc, path, query, fragment)), the netloc
\* being host (port = None) or host ":" str(port)
urlunsplit(scheme, host, port, path, query, fragment) ==
    [scheme |-> scheme, host |-> host, port |-> port, path |-> path, query |-> query,
     fragment |-> fragment]

\* a socket as `get_context().socket(zmq.PUB)` returns it: open, bound to
\* nothing, with nothing put on it
NewSocket ==
    [closed |-> FALSE, torn |-> FALSE, port |-> None, linger |-> None, keepalive |-> FALSE,
     curve_keys |-> FALSE, curve_server |-> FALSE,
     wire |-> <<>>, acked |-> [t \in Threads |-> 0]]

\* the state of the Publisher, read off its fields
PubState ==
    IF publish_socket = NoSocket THEN "unstarted"
    ELSE IF sockets[publish_socket].closed THEN "stopped"
    ELSE IF sockets[publish_socket].port # None THEN "running"
    ELSE "unbound"

\* the operating system lets a socket bind port q: no other program holds it
\* and every socket that was bound to it has been torn down
PortFree(q, socks) ==
    /\ q \notin taken
    /\ \A i \in DOMAIN socks : socks[i].torn \/ socks[i].port # q

\* a _bind that asks for a random port whatever the destination's port
MutAlwaysRandom(port) == TRUE

\* `if port == 0:`
IsRandomPort(port) == port = 0

\* The ports Socket.bind_to_random_port(dest, min_port=.., max_port=..) of
\* pyzmq draws from: it binds dest ":" str(random.randrange(min_port, max_port))
\* up to max_tries times.  random.randrange(None, x) raises TypeError,
\* random.randrange(a, None) is random.randrange(a), random.randrange(a, b)
\* with b <= a raises ValueError; a raise leaves no port to draw.
RandomCandidates(lo, hi) ==
    IF lo = None THEN {}
    ELSE IF hi = None THEN 0..(lo - 1)
    ELSE lo..(hi - 1)

\* the port the operating system binds for the drawn port q: q itself, any
\* free port when q is 0
BoundFor(q, socks) ==
    IF q = 0 THEN {r \in Ports : PortFree(r, socks)}
    ELSE IF PortFree(q, socks) THEN {q} ELSE {}

\* a _bind that records the port before it binds
MutPortBeforeBind(old, port) == port

\* Publisher.port_number after a bind that raised: the assignment of line 52 or
\* line 61 was not reached
PortAfterFailedBind(old, port) == old

\* a stop that ends with `self.publish_socket = None`
MutStopForgets(ps) == NoSocket

\* Publisher.publish_socket after stop(): stop assigns nothing
SocketAfterStop(ps) == ps

\* a send_string that raises nothing on a closed socket
MutSendOnClosed(ps, socks) == ps = NoSocket

\* `self.publish_socket.send_string(msg)` raises: AttributeError on None,
\* ZMQError on a closed socket
SendFails(ps, socks) == ps = NoSocket \/ socks[ps].closed

\* `self.publish_socket.setsockopt(zmq.LINGER, 1)` raises: AttributeError on
\* None, ZMQError on a closed socket
StopFails(ps, socks) == ps = NoSocket \/ socks[ps].closed

\* a send with no `with self._pub_lock:`
MutNoLock(lock) == TRUE

\* `with self._pub_lock:` may be entered
LockFree(lock) == lock = 0

\* a `with` that keeps the lock when its body ends
MutNoRelease(lock, t) == lock

\* the lock when t leaves `with self._pub_lock:`, by return or by raise
ReleaseLock(lock, t) == IF lock = t THEN 0 ELSE lock

\* send_string(msg) puts the frame of t's message on the socket in two parts
PutPart(sock, t, k) == [sock EXCEPT !.wire = Append(@, <<t, k>>)]

NoPubCall == [op |-> "none", raised |-> FALSE]

PublisherInit(dest, lo, hi, held) ==
    /\ destination = dest
    /\ min_port = lo
    /\ max_port = hi
    /\ port_number = None
    /\ publish_socket = NoSocket
    /\ pub_lock = 0
    /\ sockets = <<>>
    /\ taken = held
    /\ spc = [t \in Threads |-> "idle"]
    /\ ssock = [t \in Threads |-> NoSocket]
    /\ pout = NoPubCall
    /\ lastStart = [dest |-> dest, ok |-> FALSE, calls |-> 0, probed |-> {}, sock |-> NoSocket]

\* How _bind() can end for a Publisher whose socket is among socks: whether
\* it returned, the port the socket is bound to, port_number and destination
\* after it, and the ports it asked for.
BindOutcomes(socks) ==
    LET u == urlsplit(destination)
        port == u.port
        cands == RandomCandidates(min_port, max_port)
        fail(probed) ==
            [ok |-> FALSE, bound |-> None,
             port_number |-> PortAfterFailedBind(port_number, port),
             destination |-> destination, probed |-> probed]
    IN  IF IsRandomPort(port)
        THEN UNION {{[ok |-> TRUE, bound |-> r, port_number |-> q,
                      destination |-> urlunsplit(u.scheme, u.hostname, q, u.path, u.query,
                                                 u.fragment),
                      probed |-> cands] : r \in BoundFor(q, socks)} : q \in cands}
             \cup (IF cands = {} \/ \E q \in cands : BoundFor(q, socks) = {}
                   THEN {fail(cands)} ELSE {})
        ELSE IF PortFree(port, socks)
             THEN {[ok |-> TRUE, bound |-> port, port_number |-> port,
                    destination |-> destination, probed |-> {port}]}
             ELSE {fail({port})}

\* Publisher.start(), _bind() included, called by thread t of process 1
Start(t) ==
    LET s == Len(sockets) + 1
        fresh == [NewSocket EXCEPT !.keepalive = TRUE]
        socks == Append(sockets, fresh)
    IN  /\ spc[t] = "idle"
        /\ Len(sockets) < MaxSockets
        /\ GetContext(1, t)
        /\ publish_socket' = s
        /\ \E o \in BindOutcomes(socks) :
              /\ sockets' = IF o.ok THEN [socks EXCEPT ![s].port = o.bound] ELSE socks
              /\ port_number' = o.port_number
              /\ destination' = o.destination
              /\ lastStart' = [dest |-> destination, ok |-> o.ok, calls |-> 1,
                               probed |-> o.probed, sock |-> s]
              /\ pout' = [op |-> "start", raised |-> ~o.ok]
        /\ UNCHANGED <<min_port, max_port, pub_lock, taken, spc, ssock>>

\* a stop that sets the linger period and leaves the socket open
MutNoClose(sock) == [sock EXCEPT !.linger = 1]

\* `setsockopt(zmq.LINGER, 1)` and `close()` on the socket
CloseSocket(sock) == [sock EXCEPT !.linger = 1, !.closed = TRUE]

\* Publisher.stop(), called by thread t: setsockopt(zmq.LINGER, 1), close()
Stop(t) ==
    /\ spc[t] = "idle"
    /\ IF StopFails(publish_socket, sockets)
       THEN /\ pout' = [op |-> "stop", raised |-> TRUE]
            /\ UNCHANGED <<sockets, publish_socket>>
       ELSE /\ sockets' = [sockets EXCEPT ![publish_socket] = CloseSocket(@)]
            /\ publish_socket' = SocketAfterStop(publish_socket)
            /\ pout' = [op |-> "stop", raised |-> FALSE]
    /\ UNCHANGED <<destination, min_port, max_port, port_number, pub_lock, taken, spc, ssock,
                   lastStart>>
    /\ UNCHANGED rvars

\* Publisher.send(msg), called by thread t and run to its end with no other
\* thread in between
Send(t) ==
    /\ spc[t] = "idle"
    /\ LockFree(pub_lock)
    /\ IF SendFails(publish_socket, sockets)
       THEN /\ pout' = [op |-> "send", raised |-> TRUE]
            /\ UNCHANGED sockets
       ELSE /\ Len(sockets[publish_socket].wire) + 2 <= 2 * MaxFrames
            /\ sockets' = [sockets EXCEPT ![publish_socket] =
                              [PutPart(PutPart(@, t, 1), t, 2) EXCEPT !.acked[t] = @ + 1]]
            /\ pout' = [op |-> "send", raised |-> FALSE]
    /\ UNCHANGED <<destination, min_port, max_port, port_number, publish_socket, pub_lock,
                   taken, spc, ssock, lastStart>>
    /\ UNCHANGED rvars

\* The context's I/O thread tears closed socket i down once its linger period
\* (1 ms, set by stop) is over, and the operating system gets its port back.
Teardown(i) ==
    /\ sockets[i].closed /\ ~sockets[i].torn
    /\ sockets' = [sockets EXCEPT ![i].torn = TRUE]
    /\ UNCHANGED <<destination, min_port, max_port, port_number, publish_socket, pub_lock,
                   taken, spc, ssock, pout, lastStart>>
    /\ UNCHANGED rvars

\* A Publisher of any destination, on a host where other programs hold any
\* set of ports, used by one thread.  With port 0 it is given any port range;
\* with a literal port, which never reads the range, no range or the widest.
InitPublisher ==
    /\ RegistryInit
    /\ ExtraIdle
    /\ \E h \in Hosts, p \in 0..MaxPort, lo \in Ports \cup {None}, hi \in Ports \cup {None},
          held \in SUBSET Ports :
          /\ p # 0 => (<<lo, hi>> \in {<<None, None>>, <<1, MaxPort>>})
          /\ PublisherInit(Url("tcp", h, p), lo, hi, held)

NextPublisher ==
    \/ Start(1) /\ UNCHANGED xvars
    \/ Stop(1) /\ UNCHANGED xvars
    \/ Send(1) /\ UNCHANGED xvars
    \/ \E i \in DOMAIN sockets : Teardown(i) /\ UNCHANGED xvars

SpecPublisher == InitPublisher /\ [][NextPublisher]_vars

\* ------------------------------------------------- send, thread by thread
\* `with self._pub_lock:` entered
SendAcquire(t) ==
    /\ spc[t] = "idle"
    /\ LockFree(pub_lock)
    /\ pub_lock' = t
    /\ spc' = [spc EXCEPT ![t] = "locked"]
    /\ UNCHANGED <<destination, min_port, max_port, port_number, publish_socket, sockets,
                   taken, ssock, pout, lastStart>>
    /\ UNCHANGED rvars

\* `self.publish_socket.send_string(msg)` entered: the first part of the frame
\* goes out, or the call raises and the `with` gives the lock back
SendBegin(t) ==
    /\ spc[t] = "locked"
    /\ IF SendFails(publish_socket, sockets)
       THEN /\ pout' = [op |-> "send", raised |-> TRUE]
            /\ spc' = [spc EXCEPT ![t] = "idle"]
            /\ pub_lock' = ReleaseLock(pub_lock, t)
            /\ UNCHANGED <<sockets, ssock>>
       ELSE /\ Len(sockets[publish_socket].wire) + 2 <= 2 * MaxFrames
            /\ sockets' = [sockets EXCEPT ![publish_socket] = PutPart(@, t, 1)]
            /\ ssock' = [ssock EXCEPT ![t] = publish_socket]
            /\ spc' = [spc EXCEPT ![t] = "part"]
            /\ UNCHANGED <<pout, pub_lock>>
    /\ UNCHANGED <<destination, min_port, max_port, port_number, publish_socket, taken,
                   lastStart>>
    /\ UNCHANGED rvars

\* send_string returns, or raises on a socket closed meanwhile, and the `with`
\* gives the lock back
SendEnd(t) ==
    /\ spc[t] = "part"
    /\ IF sockets[ssock[t]].closed
       THEN /\ pout' = [op |-> "send", raised |-> TRUE]
            /\ UNCHANGED sockets
       ELSE /\ sockets' = [sockets EXCEPT ![ssock[t]] =
                              [PutPart(@, t, 2) EXCEPT !.acked[t] = @ + 1]]
            /\ pout' = [op |-> "send", raised |-> FALSE]
    /\ spc' = [spc EXCEPT ![t] = "idle"]
    /\ ssock' = [ssock EXCEPT ![t] = NoSocket]
    /\ pub_lock' = ReleaseLock(pub_lock, t)
    /\ UNCHANGED <<destination, min_port, max_port, port_number, publish_socket, taken,
                   lastStart>>
    /\ UNCHANGED rvars

\* A Publisher on a literal port, started once and stopped by the main thread
\* and sent on by every thread of the process, before, between and after.
InitSend ==
    /\ RegistryInit
    /\ ExtraIdle
    /\ \E held \in {{}, {1}} : PublisherInit(Url("tcp", "*", 1), None, None, held)

NextSend ==
    \/ Start(1) /\ publish_socket = NoSocket /\ UNCHANGED xvars
    \/ Stop(1) /\ UNCHANGED xvars
    \/ \E t \in Threads : SendAcquire(t) /\ UNCHANGED xvars
    \/ \E t \in Threads : SendBegin(t) /\ UNCHANGED xvars
    \/ \E t \in Threads : SendEnd(t) /\ UNCHANGED xvars

SpecSend == InitSend /\ [][NextSend]_vars

Init == RegistryInit /\ PublisherInit(Url("tcp", "*", 0), None, None, {}) /\ ExtraIdle

\* Calls made one after the other by single-threaded processes.
Next ==
    \/ \E p \in Procs : GetContext(p, 1) /\ UNCHANGED <<pvars, xvars>>
    \/ \E p \in Procs : DestroyContext(p, 1) /\ UNCHANGED <<pvars, xvars>>
    \/ \E p \in Procs, c \in Procs : Fork(p, c) /\ UNCHANGED <<pvars, xvars>>

Spec == Init /\ [][Next]_vars

\* ------------------------------------------- get_context, thread by thread
\* The same function where the threads of one process interleave: between the
\* test of line 19, the store of line 20 and the read of line 22 any other
\* thread of the process may run.

\* `if pid not in context:`
GetContextCheck(p, t) ==
    /\ p \in alive
    /\ pc[p][t] = "idle"
    /\ pc' = [pc EXCEPT ![p][t] =
                IF ContextMissing(context[p], getpid(p)) THEN "create" ELSE "return"]
    /\ UNCHANGED <<alive, context, nextCtx, got, made, out, gone>>

\* `context[pid] = zmq.Context()`
GetContextCreate(p, t) ==
    /\ p \in alive
    /\ pc[p][t] = "create"
    /\ nextCtx < MaxCtx
    /\ nextCtx' = nextCtx + 1
    /\ made' = [made EXCEPT ![p] = @ + 1]
    /\ context' = [context EXCEPT ![p] = StoreContext(@, getpid(p), nextCtx + 1)]
    /\ out' = [out EXCEPT ![p][t] = [op |-> "get_context", ctx |-> NoCtx, raised |-> FALSE,
                                       created |-> TRUE]]
    /\ pc' = [pc EXCEPT ![p][t] = "return"]
    /\ UNCHANGED <<alive, got, gone>>

\* `return context[pid]`: a KeyError when another thread popped the entry
GetContextReturn(p, t) ==
    LET pid == getpid(p)
        made_it == out[p][t].op = "get_context" /\ out[p][t].ctx = NoCtx /\ out[p][t].created
    IN  /\ p \in alive
        /\ pc[p][t] = "return"
        /\ pc' = [pc EXCEPT ![p][t] = "idle"]
        /\ IF pid \in DOMAIN context[p]
           THEN /\ got' = [got EXCEPT ![p][t] = context[p][pid]]
                /\ out' = [out EXCEPT ![p][t] = [op |-> "get_context", ctx |-> context[p][pid],
                                                   raised |-> FALSE, created |-> made_it]]
           ELSE /\ out' = [out EXCEPT ![p][t] = [op |-> "get_context", ctx |-> NoCtx,
                                                   raised |-> TRUE, created |-> made_it]]
                /\ UNCHANGED got
        /\ UNCHANGED <<alive, context, nextCtx, made, gone>>

NextConcurrent ==
    \/ \E p \in Procs, t \in Threads : GetContextCheck(p, t) /\ UNCHANGED <<pvars, xvars>>
    \/ \E p \in Procs, t \in Threads : GetContextCreate(p, t) /\ UNCHANGED <<pvars, xvars>>
    \/ \E p \in Procs, t \in Threads : GetContextReturn(p, t) /\ UNCHANGED <<pvars, xvars>>
    \/ \E p \in Procs, t \in Threads : DestroyContext(p, t) /\ UNCHANGED <<pvars, xvars>>

SpecConcurrent == Init /\ [][NextConcurrent]_vars

\* --------------------------------------------------------------- keepalive

\* `config[opt]` and Python's int() on it: the exception raised, or the int.
\* A key the configuration does not hold raises KeyError, int(None) raises
\* TypeError, int() of a string that is no number raises ValueError.
int(x) ==
    CASE x.kind = "absent" -> [exc |-> "KeyError", v |-> None]
      [] x.kind = "None"   -> [exc |-> "TypeError", v |-> None]
      [] x.kind = "text"   -> [exc |-> "ValueError", v |-> None]
      [] OTHER             -> [exc |-> "none", v |-> x.v]

\* `except (KeyError, TypeError): continue`
Caught(exc) == exc \in {"KeyError", "TypeError"}

\* the loop of get_tcp_keepalive_options from option i on, acc being
\* `keepalive_options` so far
RECURSIVE OptionsFrom(_, _, _)
OptionsFrom(cfg, i, acc) ==
    IF i > Len(KeepaliveOpts) THEN [raised |-> "none", options |-> acc]
    ELSE LET opt == KeepaliveOpts[i]
             r == int(cfg[opt])
         IN  IF r.exc = "none"
             THEN OptionsFrom(cfg, i + 1, [acc EXCEPT ![opt] = r.v])
             ELSE IF Caught(r.exc)
                  THEN OptionsFrom(cfg, i + 1, acc)
                  ELSE [raised |-> r.exc, options |-> acc]

\* get_tcp_keepalive_options(): the dict it returns (None for an option that
\* is not in it), or the exception that leaves it
get_tcp_keepalive_options(cfg) == OptionsFrom(cfg, 1, [o \in OptNames |-> None])

\* the options of a socket after _set_tcp_keepalive(socket) under cfg
SocketOptionsAfter(opts, cfg) ==
    LET r == get_tcp_keepalive_options(cfg)
    IN  IF r.raised # "none" THEN opts
        ELSE [o \in OptNames |-> IF r.options[o] # None THEN r.options[o] ELSE opts[o]]

\* _set_tcp_keepalive(socket) on a socket that has no keepalive option yet
set_tcp_keepalive ==
    /\ ~kout.called
    /\ kout' = [called |-> TRUE, raised |-> get_tcp_keepalive_options(config).raised]
    /\ sockopts' = SocketOptionsAfter(sockopts, config)
    /\ UNCHANGED config
    /\ UNCHANGED <<rvars, pvars, avars, svars>>

\* Any configuration of the four options.
InitKeepalive ==
    /\ RegistryInit
    /\ PublisherInit(Url("tcp", "*", 0), None, None, {})
    /\ config \in [OptNames -> ConfigValues]
    /\ sockopts = [o \in OptNames |-> None]
    /\ kout = NoKeepaliveCall
    /\ ReceiverIdle
    /\ SecureIdle

NextKeepalive == set_tcp_keepalive

SpecKeepalive == InitKeepalive /\ [][NextKeepalive]_vars

\* ---------------------------------------------------------------- receiver

\* `port or get_configured_address_port()`: None and 0 are false
PortOr(port, conf) == IF port = None \/ port = 0 THEN conf ELSE port

\* what `"tcp://*:" + str(port)` names as its port: the number of the `port`
\* argument, or no number (None here) for the text "None" that str(None) gives
BindTarget(port, recorded) == port

\* The ports socket.bind("tcp://*:" + target) can end on: none (bind raises)
\* when target is no number or is held, any free port when target is 0.
BindResults(target) ==
    IF target = None THEN {}
    ELSE IF target = 0 THEN {r \in Ports : PortFree(r, sockets)}
    ELSE IF PortFree(target, sockets) THEN {target} ELSE {}

\* SimpleReceiver(port) in process 1
ReceiverNew ==
    LET recorded == PortOr(rarg, configured)
        results == BindResults(BindTarget(rarg, recorded))
    IN  /\ receiver.made = "no"
        /\ GetContext(1, 1)
        /\ \/ \E r \in results :
                receiver' = [receiver EXCEPT !.made = "ok", !.port = recorded, !.bound = r]
           \/ /\ results = {}
              /\ receiver' = [receiver EXCEPT !.made = "raised", !.port = recorded]
        /\ UNCHANGED <<rarg, configured, inbox, rlog>>
        /\ UNCHANGED <<pvars, kvars, svars>>

\* a peer sends request m to the port the receiver's socket is bound to
Request(m) ==
    /\ receiver.made = "ok" /\ ~receiver.closed
    /\ inbox = <<>>
    /\ Len(rlog) < MaxFrames
    /\ inbox' = <<m>>
    /\ UNCHANGED <<rarg, configured, receiver, rlog>>
    /\ UNCHANGED <<rvars, pvars, kvars, svars>>

\* SimpleReceiver.__call__(): recv_string() blocks until a request is there,
\* send_string("ok") answers it, the message is returned
ReceiverCall ==
    /\ receiver.made = "ok" /\ ~receiver.closed
    /\ inbox # <<>>
    /\ rlog' = Append(rlog, [message |-> inbox[1], reply |-> "ok"])
    /\ inbox' = <<>>
    /\ UNCHANGED <<rarg, configured, receiver>>
    /\ UNCHANGED <<rvars, pvars, kvars, svars>>

\* SimpleReceiver.close()
ReceiverClose ==
    /\ receiver.made = "ok" /\ ~receiver.closed
    /\ receiver' = [receiver EXCEPT !.linger = 1, !.closed = TRUE]
    /\ UNCHANGED <<rarg, configured, inbox, rlog>>
    /\ UNCHANGED <<rvars, pvars, kvars, svars>>

\* A receiver given any port or none, under any configured port, on a host
\* where other programs hold any set of ports.
InitReceiver ==
    /\ RegistryInit
    /\ KeepaliveIdle
    /\ SecureIdle
    /\ \E held \in SUBSET Ports : PublisherInit(Url("tcp", "*", 0), None, None, held)
    /\ rarg \in Ports \cup {None, 0}
    /\ configured \in Ports
    /\ receiver = NoReceiver
    /\ inbox = <<>>
    /\ rlog = <<>>

NextReceiver ==
    \/ ReceiverNew
    \/ \E m \in 1..MaxFrames : Request(m)
    \/ ReceiverCall
    \/ ReceiverClose

SpecReceiver == InitReceiver /\ [][NextReceiver]_vars

\* ------------------------------------- start and stop, statement by statement

\* a constructor that accepts missing credentials
MutNoCredentialCheck(secret, dir) == FALSE

\* `if server_secret_key is None: raise TypeError`,
\* `if public_keys_directory is None: raise TypeError`
MissingCredentials(secret, dir) == secret = None \/ dir = None

\* a start that binds the socket before it sets the keepalive options
MutBindBeforeKeepalive == <<"get_context", "socket", "bind", "keepalive">>

\* the statements of UnsecureZMQPublisher.start, in their order
UnsecureStartSteps == <<"get_context", "socket", "keepalive", "bind">>

\* a secure start that binds the socket before it brings the authenticator up
MutBindBeforeAuth ==
    <<"get_context", "socket", "load_cert", "curve_keys", "keepalive", "bind",
      "auth_start", "auth_allow", "auth_curve", "auth_assign">>

\* the statements of SecureZMQPublisher.start, in their order
SecureStartSteps ==
    <<"get_context", "auth_start", "auth_allow", "auth_curve", "auth_assign",
      "socket", "load_cert", "curve_keys", "keepalive", "bind">>

\* the statements of UnsecureZMQPublisher.stop
UnsecureStopSteps == <<"close">>

\* a secure stop that stops the authenticator before it closes the socket
MutAuthStopFirst == <<"auth_stop", "close">>

\* the statements of SecureZMQPublisher.stop: super().stop(), then
\* self._authenticator.stop()
SecureStopSteps == <<"close", "auth_stop">>

Steps(op) ==
    IF op = "start" THEN (IF secure THEN SecureStartSteps ELSE UnsecureStartSteps)
    ELSE (IF secure THEN SecureStopSteps ELSE UnsecureStopSteps)

\* the call in progress is at statement `name`
At(name) == call.op # "none" /\ Steps(call.op)[call.i] = name

\* the statement ended normally: on to the next one, or the call returns
Advance(c) ==
    IF c.i = Len(Steps(c.op))
    THEN call' = NoStep /\ pout' = [op |-> c.op, raised |-> FALSE]
    ELSE call' = [c EXCEPT !.i = @ + 1] /\ UNCHANGED pout

\* the statement raised: the call ends there
Raise ==
    /\ call' = NoStep
    /\ pout' = [op |-> call.op, raised |-> TRUE]

\* UnsecureZMQPublisher(...) or SecureZMQPublisher(...)
New ==
    /\ built = "no"
    /\ built' = IF secure /\ MissingCredentials(creds.secret, creds.dir) THEN "raised" ELSE "ok"
    /\ UNCHANGED <<secure, creds, auths, authenticator, call>>
    /\ UNCHANGED <<rvars, pvars, kvars, avars>>

\* start() is called on the constructed Publisher
BeginStart ==
    /\ built = "ok" /\ call = NoStep
    /\ Len(sockets) < MaxSockets
    /\ call' = [op |-> "start", i |-> 1, auth |-> 0]
    /\ UNCHANGED <<secure, creds, built, auths, authenticator>>
    /\ UNCHANGED <<rvars, pvars, kvars, avars>>

\* stop() is called on the constructed Publisher
BeginStop ==
    /\ built = "ok" /\ call = NoStep
    /\ call' = [op |-> "stop", i |-> 1, auth |-> 0]
    /\ UNCHANGED <<secure, creds, built, auths, authenticator>>
    /\ UNCHANGED <<rvars, pvars, kvars, avars>>

\* `get_context()`
StepGetContext ==
    /\ At("get_context")
    /\ GetContext(1, 1)
    /\ Advance(call)
    /\ UNCHANGED <<secure, creds, built, auths, authenticator>>
    /\ UNCHANGED <<destination, min_port, max_port, port_number, publish_socket, pub_lock,
                   sockets, taken, spc, ssock, lastStart>>
    /\ UNCHANGED <<kvars, avars>>

\* `auth = ThreadAuthenticator(ctx)`, `auth.start()`: raises when an
\* authenticator is already running on the context
StepAuthStart ==
    /\ At("auth_start")
    /\ IF \E a \in DOMAIN auths : auths[a].running /\ auths[a].ctx = got[1][1]
       THEN Raise /\ UNCHANGED auths
       ELSE /\ auths' = Append(auths, [ctx |-> got[1][1], running |-> TRUE,
                                       allow |-> FALSE, curve |-> FALSE])
            /\ Advance([call EXCEPT !.auth = Len(auths) + 1])
    /\ UNCHANGED <<secure, creds, built, authenticator>>
    /\ UNCHANGED <<destination, min_port, max_port, port_number, publish_socket, pub_lock,
                   sockets, taken, spc, ssock, lastStart>>
    /\ UNCHANGED <<rvars, kvars, avars>>

\* `auth.allow(*self._authorized_sub_addresses)`
StepAuthAllow ==
    /\ At("auth_allow")
    /\ IF call.auth = 0 THEN Raise /\ UNCHANGED auths
       ELSE auths' = [auths EXCEPT ![call.auth].allow = TRUE] /\ Advance(call)
    /\ UNCHANGED <<secure, creds, built, authenticator>>
    /\ UNCHANGED <<destination, min_port, max_port, port_number, publish_socket, pub_lock,
                   sockets, taken, spc, ssock, lastStart>>
    /\ UNCHANGED <<rvars, kvars, avars>>

\* `auth.configure_curve(domain="*", location=self._pub_keys_dir)`
StepAuthCurve ==
    /\ At("auth_curve")
    /\ IF call.auth = 0 THEN Raise /\ UNCHANGED auths
       ELSE auths' = [auths EXCEPT ![call.auth].curve = TRUE] /\ Advance(call)
    /\ UNCHANGED <<secure, creds, built, authenticator>>
    /\ UNCHANGED <<destination, min_port, max_port, port_number, publish_socket, pub_lock,
                   sockets, taken, spc, ssock, lastStart>>
    /\ UNCHANGED <<rvars, kvars, avars>>

\* `self._authenticator = auth`
StepAuthAssign ==
    /\ At("auth_assign")
    /\ authenticator' = call.auth
    /\ Advance(call)
    /\ UNCHANGED <<secure, creds, built, auths>>
    /\ UNCHANGED <<destination, min_port, max_port, port_number, publish_socket, pub_lock,
                   sockets, taken, spc, ssock, lastStart>>
    /\ UNCHANGED <<rvars, kvars, avars>>

\* `self.publish_socket = ctx.socket(zmq.PUB)`
StepSocket ==
    /\ At("socket")
    /\ sockets' = Append(sockets, NewSocket)
    /\ publish_socket' = Len(sockets) + 1
    /\ Advance(call)
    /\ UNCHANGED <<secure, creds, built, auths, authenticator>>
    /\ UNCHANGED <<destination, min_port, max_port, port_number, pub_lock, taken, spc, ssock,
                   lastStart>>
    /\ UNCHANGED <<rvars, kvars, avars>>

\* `zmq.auth.load_certificate(self._server_secret_key)`: raises when the file
\* is no certificate with a secret key
StepLoadCert ==
    /\ At("load_cert")
    /\ IF creds.secret # None /\ creds.certOk THEN Advance(call) ELSE Raise
    /\ UNCHANGED <<secure, creds, built, auths, authenticator>>
    /\ UNCHANGED <<destination, min_port, max_port, port_number, publish_socket, pub_lock,
                   sockets, taken, spc, ssock, lastStart>>
    /\ UNCHANGED <<rvars, kvars, avars>>

\* `curve_secretkey = ...`, `curve_publickey = ...`, `curve_server = True`
StepCurveKeys ==
    /\ At("curve_keys")
    /\ sockets' = [sockets EXCEPT ![publish_socket].curve_keys = TRUE,
                                  ![publish_socket].curve_server = TRUE]
    /\ Advance(call)
    /\ UNCHANGED <<secure, creds, built, auths, authenticator>>
    /\ UNCHANGED <<destination, min_port, max_port, port_number, publish_socket, pub_lock,
                   taken, spc, ssock, lastStart>>
    /\ UNCHANGED <<rvars, kvars, avars>>

\* `_set_tcp_keepalive(self.publish_socket)`
StepKeepalive ==
    /\ At("keepalive")
    /\ IF get_tcp_keepalive_options(config).raised # "none"
       THEN Raise /\ UNCHANGED sockets
       ELSE /\ sockets' = [sockets EXCEPT ![publish_socket].keepalive = TRUE]
            /\ Advance(call)
    /\ UNCHANGED <<secure, creds, built, auths, authenticator>>
    /\ UNCHANGED <<destination, min_port, max_port, port_number, publish_socket, pub_lock,
                   taken, spc, ssock, lastStart>>
    /\ UNCHANGED <<rvars, kvars, avars>>

\* `self._bind()`
StepBind ==
    /\ At("bind")
    /\ \E o \in BindOutcomes(sockets) :
          /\ sockets' = IF o.ok THEN [sockets EXCEPT ![publish_socket].port = o.bound]
                        ELSE sockets
          /\ port_number' = o.port_number
          /\ destination' = o.destination
          /\ lastStart' = [dest |-> destination, ok |-> o.ok, calls |-> 1,
                           probed |-> o.probed, sock |-> publish_socket]
          /\ IF o.ok THEN Advance(call) ELSE Raise
    /\ UNCHANGED <<secure, creds, built, auths, authenticator>>
    /\ UNCHANGED <<min_port, max_port, publish_socket, pub_lock, taken, spc, ssock>>
    /\ UNCHANGED <<rvars, kvars, avars>>

\* UnsecureZMQPublisher.stop(): setsockopt(zmq.LINGER, 1), close()
StepClose ==
    /\ At("close")
    /\ IF StopFails(publish_socket, sockets)
       THEN Raise /\ UNCHANGED <<sockets, publish_socket>>
       ELSE /\ sockets' = [sockets EXCEPT ![publish_socket] = CloseSocket(@)]
            /\ publish_socket' = SocketAfterStop(publish_socket)
            /\ Advance(call)
    /\ UNCHANGED <<secure, creds, built, auths, authenticator>>
    /\ UNCHANGED <<destination, min_port, max_port, port_number, pub_lock, taken, spc, ssock,
                   lastStart>>
    /\ UNCHANGED <<rvars, kvars, avars>>

\* `self._authenticator.stop()`: AttributeError when _authenticator is None
StepAuthStop ==
    /\ At("auth_stop")
    /\ IF authenticator = 0 THEN Raise /\ UNCHANGED auths
       ELSE auths' = [auths EXCEPT ![authenticator].running = FALSE] /\ Advance(call)
    /\ UNCHANGED <<secure, creds, built, authenticator>>
    /\ UNCHANGED <<destination, min_port, max_port, port_number, publish_socket, pub_lock,
                   sockets, taken, spc, ssock, lastStart>>
    /\ UNCHANGED <<rvars, kvars, avars>>

\* the configurations a start is run under: no option, a valid one, a text
SampleConfigs ==
    {[o \in OptNames |-> IF o = "tcp_keepalive" THEN x ELSE Absent] :
        x \in {Absent, [kind |-> "int", v |-> 1], [kind |-> "text", v |-> 0]}}

\* A Publisher or SecurePublisher about to be constructed, with or without
\* its credentials, on a literal or a random port, started and stopped by one
\* thread.
InitSteps ==
    /\ RegistryInit
    /\ ReceiverIdle
    /\ \E p \in {0, 1}, held \in SUBSET Ports :
          PublisherInit(Url("tcp", "*", p), 1, MaxPort + 1, held)
    /\ config \in SampleConfigs
    /\ sockopts = [o \in OptNames |-> None]
    /\ kout = NoKeepaliveCall
    /\ secure \in BOOLEAN
    /\ creds \in [secret : {None, 1}, dir : {None, 1}, certOk : BOOLEAN]
    /\ ~secure => creds = [secret |-> None, dir |-> None, certOk |-> FALSE]
    /\ built = "no"
    /\ auths = <<>>
    /\ authenticator = 0
    /\ call = NoStep

NextSteps ==
    \/ New
    \/ BeginStart
    \/ BeginStop
    \/ StepGetContext
    \/ StepAuthStart
    \/ StepAuthAllow
    \/ StepAuthCurve
    \/ StepAuthAssign
    \/ StepSocket
    \/ StepLoadCert
    \/ StepCurveKeys
    \/ StepKeepalive
    \/ StepBind
    \/ StepClose
    \/ StepAuthStop
    \/ \E i \in DOMAIN sockets : Teardown(i) /\ UNCHANGED xvars

SpecSteps == InitSteps /\ [][NextSteps]_vars

\* ------------------------------------------------------------------ claims

\* C1: over any sequence of get_context and destroy_context calls made by any
\* set of processes, a process holds at most one context it built and did not
\* destroy, and a get_context that follows another get_context of the same
\* process with no destroy_context of that process in between returns the same
\* context and builds nothing.
C1_Idempotent ==
    /\ [](\A p \in Procs : made[p] <= 1)
    /\ [][\A p \in Procs :
            (GetContext(p, 1) /\ got[p][1] # NoCtx)
                => (got'[p][1] = got[p][1] /\ nextCtx' = nextCtx /\ ~out'[p][1].created)]_vars

\* a process whose last get_context built nothing, after it built its context
C1_Witness ==
    \E p \in Procs :
        /\ out[p][1].op = "get_context" /\ ~out[p][1].created
        /\ made[p] = 1 /\ got[p][1] = out[p][1].ctx

\* C2: processes with different pids never get the same context from
\* get_context, and a process that built no context of its own (a forked
\* child holding a copy of its parent's dict included) gets a newly built one.
C2_DistinctPerProcess ==
    /\ [](\A p1 \in alive, p2 \in alive, t1 \in Threads, t2 \in Threads :
            (p1 # p2 /\ got[p1][t1] # NoCtx) => got[p1][t1] # got[p2][t2])
    /\ [][\A p \in Procs :
            (GetContext(p, 1) /\ made[p] = 0)
                => (nextCtx' = nextCtx + 1 /\ got'[p][1] = nextCtx'
                    /\ \A q \in alive \ {p} : \A k \in DOMAIN context[q] : context[q][k] # got'[p][1])]_vars

\* a child that inherited its parent's entry and then got a context of its own
C2_Witness ==
    \E c \in alive \ {1} :
        /\ got[1][1] # NoCtx /\ got[c][1] # NoCtx
        /\ 1 \in DOMAIN context[c] /\ context[c][1] = got[1][1]

\* C3: destroy_context in a process with no context registered raises and
\* changes no registry entry of any process.
C3_DestroyMissingRaises ==
    [][\A p \in Procs :
        (DestroyContext(p, 1) /\ p \notin DOMAIN context[p])
            => (out'[p][1].op = "destroy_context" /\ out'[p][1].raised /\ context' = context)]_vars

\* a destroy_context that raised in a process with no entry of its own, while
\* another process keeps its context
C3_Witness ==
    \E p \in alive, q \in alive :
        /\ p # q /\ q \in DOMAIN context[q]
        /\ out[p][1].op = "destroy_context" /\ out[p][1].raised
        /\ p \notin DOMAIN context[p]

\* C4: threads of one process calling get_context while no context is
\* registered build exactly one context, and every call returns it.
C4_OneContextUnderRace ==
    \A p \in Procs :
        /\ made[p] <= 1
        /\ \A t1 \in Threads, t2 \in Threads :
              (got[p][t1] # NoCtx /\ got[p][t2] # NoCtx) => got[p][t1] = got[p][t2]

\* the parts of w are whole frames one after the other, but for a last frame
\* whose sender is still inside send_string on socket s
WholeFrames(w, s) ==
    \A i \in 1..Len(w) :
        IF i % 2 = 1
        THEN /\ w[i][2] = 1
             /\ IF i < Len(w) THEN w[i + 1] = <<w[i][1], 2>>
                ELSE spc[w[i][1]] = "part" /\ ssock[w[i][1]] = s
        ELSE w[i][2] = 2

\* how many whole frames of thread t's message w holds
FrameCount(w, t) ==
    Cardinality({i \in 1..Len(w) : i % 2 = 1 /\ i < Len(w) /\ w[i] = <<t, 1>> /\ w[i + 1] = <<t, 2>>})

\* C5: with any number of threads inside send on one Publisher, at most one
\* is transmitting at any time, and what is on an open socket is whole frames,
\* one for every send that returned, none lost, doubled or mixed.
C5_SendSerialized ==
    /\ Cardinality({t \in Threads : spc[t] = "part"}) <= 1
    /\ \A s \in DOMAIN sockets :
         ~sockets[s].closed =>
            /\ WholeFrames(sockets[s].wire, s)
            /\ \A t \in Threads : FrameCount(sockets[s].wire, t) = sockets[s].acked[t]

\* thread 1 is transmitting on a socket that carries a whole frame of thread 2
C5_Witness ==
    \E s \in DOMAIN sockets :
        /\ ~sockets[s].closed /\ sockets[s].acked[2] = 1
        /\ spc[1] = "part" /\ ssock[1] = s /\ pub_lock = 1

\* C6 as stated: once stopped, no operation makes the Publisher running again
\* or returns it to unstarted.
C6_NoRestart ==
    [][PubState = "stopped" => PubState' \notin {"running", "unstarted"}]_vars

\* C6 as amended: the Publisher starts unstarted with no socket; it becomes
\* running exactly by a start whose bind succeeds, from any state, stopped
\* included; stop moves a running Publisher to stopped; only start and stop
\* change the state, and nothing returns it to unstarted.
C6_Lifecycle ==
    /\ (PubState = "unstarted" /\ publish_socket = NoSocket)
    /\ [][/\ PubState # "unstarted" => PubState' # "unstarted"
          /\ (PubState' = "running" /\ PubState # "running") => (Start(1) /\ lastStart'.ok)
          /\ (Start(1) /\ lastStart'.ok) => PubState' = "running"
          /\ (Stop(1) /\ PubState = "running") => PubState' = "stopped"
          /\ PubState' # PubState => (Start(1) \/ Stop(1))]_vars

\* a Publisher running on its second socket after its first was stopped
C6_Witness ==
    /\ PubState = "running" /\ publish_socket = 2
    /\ sockets[1].closed /\ sockets[1].port # None

\* C7: a send on a Publisher that was never started, or that was stopped,
\* raises and puts nothing on any socket.
C7_SendNeedsRunning ==
    [][(Send(1) /\ PubState \in {"unstarted", "stopped"})
          => (pout' = [op |-> "send", raised |-> TRUE] /\ sockets' = sockets)]_vars

\* a send that raised on a stopped Publisher which had sent a frame before
C7_Witness ==
    /\ PubState = "stopped"
    /\ pout = [op |-> "send", raised |-> TRUE]
    /\ sockets[publish_socket].acked[1] = 1

\* C8: after a successful start of a Publisher whose destination had port 0,
\* port_number lies in [min_port, max_port], an absent bound putting no limit
\* on its side, the destination's port is port_number, and its scheme, host,
\* path, query and fragment are what they were.
C8_RandomPortInRange ==
    (lastStart.ok /\ lastStart.dest.port = 0) =>
        /\ min_port = None \/ port_number >= min_port
        /\ max_port = None \/ port_number <= max_port
        /\ urlsplit(destination).port = port_number
        /\ \A f \in {"scheme", "hostname", "path", "query", "fragment"} :
              urlsplit(destination)[f] = urlsplit(lastStart.dest)[f]

\* C9: after a successful start of a Publisher whose destination has a
\* literal port, the socket is bound to that port, port_number is that port,
\* the destination is as it was written, and _bind made one bind call, for
\* that port only.
C9_LiteralPort ==
    (lastStart.ok /\ lastStart.dest.port # 0) =>
        /\ port_number = lastStart.dest.port
        /\ destination = lastStart.dest
        /\ sockets[lastStart.sock].port = lastStart.dest.port
        /\ lastStart.probed = {lastStart.dest.port}
        /\ lastStart.calls = 1

\* a Publisher running on the literal port of a destination written in mixed case
C9_Witness ==
    /\ lastStart.ok /\ lastStart.dest.port = 2 /\ lastStart.dest.host = "LocalHost"
    /\ PubState = "running" /\ port_number = 2

\* C10: a start whose bind fails raises after one bind call and leaves
\* port_number and destination as they were; port_number is set only once some
\* socket of the Publisher was bound.
C10_BindFailure ==
    /\ [](port_number # None => \E s \in DOMAIN sockets : sockets[s].port # None)
    /\ [][(Start(1) /\ ~lastStart'.ok)
             => /\ pout' = [op |-> "start", raised |-> TRUE]
                /\ port_number' = port_number
                /\ destination' = destination
                /\ lastStart'.calls = 1]_vars

\* a first start that raised for a taken literal port: no port_number, the
\* destination as given, the socket left unbound
C10_Witness ==
    /\ pout = [op |-> "start", raised |-> TRUE]
    /\ ~lastStart.ok /\ lastStart.dest.port = 1 /\ 1 \in taken
    /\ port_number = None /\ destination = lastStart.dest /\ PubState = "unbound"

\* C15: after a destroy_context that succeeded the process has no context
\* registered, its next get_context builds and registers a new one, and no
\* context a process destroyed is registered for it or returned to it again.
C15_RecreatedAfterDestroy ==
    /\ [](\A p \in alive :
            /\ (out[p][1].op = "destroy_context" /\ ~out[p][1].raised)
                  => getpid(p) \notin DOMAIN context[p]
            /\ got[p][1] \notin gone[p]
            /\ getpid(p) \in DOMAIN context[p] => context[p][getpid(p)] \notin gone[p])
    /\ [][\A p \in Procs :
            (GetContext(p, 1) /\ out[p][1].op = "destroy_context" /\ ~out[p][1].raised)
                => (out'[p][1].created /\ got'[p][1] = nextCtx + 1
                    /\ context'[p][getpid(p)] = got'[p][1] /\ got'[p][1] \notin gone[p])]_vars

\* a process holding a context it built after it destroyed an earlier one
C15_Witness ==
    \E p \in alive :
        /\ gone[p] # {} /\ out[p][1].op = "get_context" /\ out[p][1].created
        /\ got[p][1] # NoCtx /\ context[p][getpid(p)] = got[p][1]

\* C19: the send guard is released whenever send returns, normally or by
\* raising: the guard is only ever held by a thread that is inside send, and
\* the step that ends a send, a raising one included, leaves the guard free.
C19_GuardReleased ==
    /\ [](pub_lock # 0 => spc[pub_lock] \in {"locked", "part"})
    /\ [][\A t \in Threads :
            ((SendBegin(t) \/ SendEnd(t)) /\ spc'[t] = "idle")
                => (pub_lock = t /\ pub_lock' = 0)]_vars

\* a send failed on the stopped socket and a thread has entered the guard since
C19_Witness ==
    /\ pout = [op |-> "send", raised |-> TRUE]
    /\ PubState = "stopped"
    /\ pub_lock # 0 /\ spc[pub_lock] = "locked"

\* C20: stop never closes the socket while a thread is inside send holding
\* the guard, so every frame begun on a socket is completed on it.
C20_StopWaitsForSend ==
    /\ [][(Stop(1) /\ ~pout'.raised) => pub_lock = 0]_vars
    /\ [](\A t \in Threads : spc[t] = "part" => ~sockets[ssock[t]].closed)
    /\ [](\A i \in DOMAIN sockets : WholeFrames(sockets[i].wire, i))

\* C13: stop of a running Publisher closes its socket with a linger period
\* of 1; once the socket is torn down, a start on its literal port (that no
\* other program holds) binds that port, whereas a start on the literal port
\* of a socket that is still open raises and binds nothing.
C13_PortReleased ==
    /\ [][(Stop(1) /\ PubState = "running")
            => /\ ~pout'.raised
               /\ sockets'[publish_socket].closed
               /\ sockets'[publish_socket].linger = 1]_vars
    /\ [][LET q == urlsplit(destination).port
              s == Len(sockets) + 1
          IN  (Start(1) /\ q # 0 /\ q \notin taken
                 /\ (\E i \in DOMAIN sockets : sockets[i].port = q)
                 /\ (\A k \in DOMAIN sockets : sockets[k].port = q => sockets[k].torn))
                => (~pout'.raised /\ sockets'[s].port = q /\ ~sockets'[s].closed)]_vars
    /\ [][LET q == urlsplit(destination).port
              s == Len(sockets) + 1
          IN  (Start(1) /\ q # 0
                 /\ (\E i \in DOMAIN sockets : sockets[i].port = q /\ ~sockets[i].closed))
                => (pout'.raised /\ sockets'[s].port = None)]_vars

\* a socket is bound to the literal port that a stopped, torn down socket had,
\* after a start on that port failed while the first socket was open
C13_Witness ==
    \E i, j \in DOMAIN sockets :
        /\ i < j /\ sockets[i].torn /\ sockets[i].linger = 1
        /\ sockets[i].port # None /\ sockets[j].port = sockets[i].port
        /\ ~sockets[j].closed /\ urlsplit(destination).port = sockets[i].port

\* C14: once _set_tcp_keepalive has run, no error was raised and each of the
\* four options is set on the socket, with its integer value, exactly when
\* the configuration holds an integer-convertible value for it.
C14_KeepaliveSkipsInvalid ==
    kout.called =>
        /\ kout.raised = "none"
        /\ \A o \in OptNames :
              sockopts[o] = IF config[o].kind \in {"int", "digits"} THEN config[o].v ELSE None

\* C18: a constructed address receiver recorded the provided port, or the
\* configured one when none was given, and its socket is bound to the port it
\* recorded; the construction succeeds when no one holds that port.
C18_BindsRecordedPort ==
    LET want == IF rarg = None THEN configured ELSE rarg
    IN  /\ receiver.made = "ok" => receiver.bound = receiver.port
        /\ (receiver.made = "ok" /\ rarg # 0) => receiver.port = want
        /\ (receiver.made = "raised" /\ want # 0) => want \in taken

\* C16: constructing a SecurePublisher without a secret key or without a
\* public-keys directory raises in the constructor, and such a Publisher never
\* gets to start: no context, socket or authenticator is ever built for it.
C16_ConstructionFails ==
    /\ []((secure /\ (creds.secret = None \/ creds.dir = None))
            => /\ built \in {"no", "raised"}
               /\ call = NoStep
               /\ nextCtx = 0 /\ sockets = <<>> /\ auths = <<>>
               /\ authenticator = 0 /\ publish_socket = NoSocket)
    /\ [][(New /\ secure /\ (creds.secret = None \/ creds.dir = None))
            => built' = "raised"]_vars

\* the constructor of a SecurePublisher given a secret key and no public-keys
\* directory has raised
C16_Witness ==
    /\ secure /\ built = "raised"
    /\ creds.secret # None /\ creds.dir = None

\* C11: whenever a socket of a SecurePublisher is bound and open, the
\* Publisher's authenticator is running on the process's context with the
\* allow-list registered and curve validation configured; an authenticator is
\* only stopped when no socket is bound and open.
C11_AuthWhileBound ==
    /\ [](secure =>
            \A i \in DOMAIN sockets :
                (sockets[i].port # None /\ ~sockets[i].closed)
                    => /\ authenticator # 0
                       /\ auths[authenticator].running
                       /\ auths[authenticator].allow
                       /\ auths[authenticator].curve
                       /\ auths[authenticator].ctx = context[1][getpid(1)])
    /\ [][(\E a \in DOMAIN auths : auths[a].running /\ ~auths'[a].running)
            => \A i \in DOMAIN sockets : sockets[i].port = None \/ sockets[i].closed]_vars

\* a SecurePublisher whose start has returned: its socket is bound and open
C11_Witness ==
    /\ secure /\ call = NoStep /\ pout = [op |-> "start", raised |-> FALSE]
    /\ PubState = "running"
    /\ auths[authenticator].running

\* C12: stop of a running SecurePublisher closes the socket before it stops
\* the authenticator, neither statement raises, and when stop returns the
\* socket is closed and the authenticator is not running.
C12_StopOrder ==
    /\ [][(StepAuthStop /\ authenticator # 0)
            => /\ publish_socket # NoSocket /\ sockets[publish_socket].closed
               /\ ~pout'.raised /\ ~auths'[authenticator].running]_vars
    /\ [][(StepClose /\ secure /\ PubState = "running")
            => /\ sockets'[publish_socket].closed
               /\ call'.op = "stop" /\ At("auth_stop")'
               /\ auths[authenticator].running]_vars
    /\ [][(secure /\ call.op = "stop" /\ call' = NoStep /\ ~pout'.raised)
            => /\ sockets'[publish_socket].closed
               /\ ~auths'[authenticator].running]_vars

\* the stop of a SecurePublisher that was running has returned
C12_Witness ==
    /\ secure /\ call = NoStep /\ pout = [op |-> "stop", raised |-> FALSE]
    /\ lastStart.ok /\ PubState = "stopped"
    /\ sockets[publish_socket].port # None
    /\ ~auths[authenticator].running

\* C17: a socket is bound only after _set_tcp_keepalive has run on it and,
\* in a SecurePublisher, after the server keypair and the curve_server flag
\* were set on it.
C17_ConfiguredBeforeBind ==
    /\ [](\A i \in DOMAIN sockets :
            sockets[i].port # None
                => /\ sockets[i].keepalive
                   /\ secure => (sockets[i].curve_keys /\ sockets[i].curve_server))
    /\ [][StepBind
            => /\ sockets[publish_socket].keepalive
               /\ secure => (sockets[publish_socket].curve_keys
                             /\ sockets[publish_socket].curve_server)]_vars

\* a bound socket of a SecurePublisher under a configuration with a keepalive
\* option
C17_Witness ==
    /\ secure /\ config["tcp_keepalive"].kind = "int"
    /\ \E i \in DOMAIN sockets :
          /\ sockets[i].port # None /\ ~sockets[i].closed
          /\ sockets[i].keepalive /\ sockets[i].curve_keys /\ sockets[i].curve_server

====
